---- MODULE Spec2Model ----
(***************************************************************************)
(* vispy.app.canvas: the Canvas facade, the CanvasBackend base class and   *)
(* the MouseEvent / ResizeEvent payload constructors                       *)
(* (src/vispy/app/canvas.py).                                              *)
(*                                                                         *)
(* One action per Canvas operation.  Every action records, in `last`, the  *)
(* operation, its argument, the calls it issued on its collaborators (the  *)
(* application and the backend) in order, and how it ended ("ok" or the    *)
(* name of the exception that left it).                                    *)
(***************************************************************************)
EXTENDS Integers, Sequences, FiniteSets, TLC

VARIABLES
    alive,      \* "none" before Canvas(...), "ok" once __init__ returned,
                \* "failed" when __init__ raised (no object to operate on)
    _app,       \* Canvas._app
    _args,      \* Canvas._args:   <<v>> while the attribute exists, <<>> once deleted
    _kwargs,    \* Canvas._kwargs: <<v>> while the attribute exists, <<>> once deleted
    _backend,   \* Canvas._backend: None, or the number of the backend instance
    _title,     \* Canvas._title
    impl,       \* the _vispy_ methods the class of the backend instance overrides
    geom,       \* the native geometry <<x, y, w, h>> the backend reports
    instances,  \* how many times the backend class returned an instance
    okTitle,    \* history: the value of the last title set that returned normally
    last,       \* the last operation: [op, arg, calls, exc, ret]
    event       \* the last event payload constructed: [cls, arg, exc, val]

vars == <<alive, _app, _args, _kwargs, _backend, _title, impl, geom,
          instances, okTitle, last, event>>

canvasVars == <<alive, _app, _args, _kwargs, _backend, _title, impl, geom,
                instances, okTitle, last>>

\* ------------------------------------------------------------------ bounds

\* the longest argument handed to the geometry setter
MaxArgLen == 5
\* the longest pos / size handed to an event constructor
MaxPosLen == 4

\* Python's None, where a number is expected
None == -1

\* Coordinates and sizes.  The code only tests them for equality and for
\* being None, so two values make every case of the comparisons happen.
Coord == {0, 1}
\* the one coordinate of the runs that are not about the geometry
Origin == {0}
Titles == {"a", "b"}

\* tuples of exactly n values
TuplesOf(S, n) == [1..n -> S]

\* -------------------------------------------------------------- the backend

AllOps == {"_vispy_set_current", "_vispy_swap_buffers", "_vispy_set_title",
           "_vispy_set_size", "_vispy_set_location", "_vispy_set_visible",
           "_vispy_update", "_vispy_close", "_vispy_get_geometry",
           "_vispy_get_native_canvas"}

\* The backend classes an application's backend_module may expose, each given
\* by the set of methods it overrides: the base class itself, a complete
\* backend, and the backends that leave exactly one method to the base class.
BackendClasses == {{}, AllOps} \cup {AllOps \ {m} : m \in AllOps}

\* a base class whose _vispy_set_title returns without doing anything
BaseMethodTitleNoop(op) ==
    IF op \in {"_vispy_get_native_canvas", "_vispy_set_title"}
    THEN "ok" ELSE "NotImplementedError"

\* CanvasBackend's own body of method op: how it ends.
BaseMethod(op) ==
    IF op = "_vispy_get_native_canvas" THEN "ok" ELSE "NotImplementedError"

\* How a call of method op ends on an instance whose class overrides `over`.
MethodOutcome(over, op) == IF op \in over THEN "ok" ELSE BaseMethod(op)

\* The native geometry after an overriding _vispy_set_location(x, y).
Moved(g, x, y) ==
    <<IF x = None THEN g[1] ELSE x, IF y = None THEN g[2] ELSE y, g[3], g[4]>>

\* The native geometry after an overriding _vispy_set_size(w, h).
Resized(g, w, h) ==
    <<g[1], g[2], IF w = None THEN g[3] ELSE w, IF h = None THEN g[4] ELSE h>>

\* ---------------------------------------------------- a running operation
\* The progress of one Canvas operation: the calls issued so far, the
\* exception that ended it ("ok" while it runs on), the native geometry and
\* the value to return.

Begin == [calls |-> <<>>, exc |-> "ok", geom |-> geom, ret |-> <<>>]

Raise(st, e) == IF st.exc = "ok" THEN [st EXCEPT !.exc = e] ELSE st

\* a Canvas that returns at once while it has no backend
OnNoneIgnored(st) == st

\* self._backend.<op> while self._backend is None: the attribute lookup
\* raises before any call is made.
OnNone(st) == [st EXCEPT !.exc = "AttributeError"]

\* self._backend.<op>(*a): nothing is issued once an exception is under way.
Call(st, op, a) ==
    IF st.exc # "ok" THEN st
    ELSE IF _backend = None THEN OnNone(st)
    ELSE LET out == MethodOutcome(impl, op)
             st1 == [st EXCEPT !.calls = Append(@, <<op, a>>), !.exc = out]
         IN  IF out # "ok" \/ op \notin impl THEN
                 IF op = "_vispy_get_native_canvas" /\ out = "ok"
                 THEN [st1 EXCEPT !.ret = <<_backend>>] ELSE st1
             ELSE CASE op = "_vispy_set_location" ->
                         [st1 EXCEPT !.geom = Moved(@, a[1], a[2])]
                    [] op = "_vispy_set_size" ->
                         [st1 EXCEPT !.geom = Resized(@, a[1], a[2])]
                    [] op = "_vispy_get_geometry" ->
                         [st1 EXCEPT !.ret = <<st.geom>>]
                    [] op = "_vispy_get_native_canvas" ->
                         [st1 EXCEPT !.ret = <<_backend>>]
                    [] OTHER -> st1

\* The record of a finished operation.
Done(op, arg, st) ==
    [op |-> op, arg |-> arg, calls |-> st.calls, exc |-> st.exc, ret |-> st.ret]

\* ------------------------------------------------------- Canvas.__init__

Nothing == <<>>
Some(v) == <<v>>

\* dict.pop(k): the dictionary without key k
Pop(kw, k) == [x \in DOMAIN kw \ {k} |-> kw[x]]

\* dict.pop(k, default): the value popped
Popped(kw, k, default) == IF k \in DOMAIN kw THEN kw[k] ELSE default

\* The keyword arguments a caller passes to Canvas(...).
Kwargs(withApp, cw, extra) ==
    [k \in (IF withApp THEN {"app"} ELSE {})
           \cup (IF cw = "absent" THEN {} ELSE {"create_widget"})
           \cup (IF extra THEN {"parent"} ELSE {})
       |-> CASE k = "app" -> "app1"
             [] k = "create_widget" -> (cw = "True")
             [] OTHER -> "window"]

KwargsSet == {Kwargs(a, c, e) : a \in BOOLEAN, c \in {"absent", "True", "False"},
                                e \in BOOLEAN}

ArgsSet == {<<>>, <<"fmt">>}

\* What the collaborators of create_widget may do: app.use() raises,
\* app.native raises, the backend class raises, or all three return.
Outcomes == {"use_raises", "native_raises", "backend_raises", "ok"}

\* a create_widget that forgets the two del statements
Kept(a) == a

\* `del self._args`, `del self._kwargs`: the attribute is gone
Deleted(a) == Nothing

\* a create_widget without its guard
NeedsCreateAlways(backend) == TRUE

\* the guard of create_widget
NeedsCreate(backend) == backend = None

\* Canvas.create_widget on a Canvas with the given fields: the calls it
\* issues, how it ends and whether it stored a new backend.  Reading
\* self._args or self._kwargs after their deletion is an AttributeError.
create_widget(backend, app, args, kwargs, out) ==
    LET use == <<"use", <<app>>>>
        nat == <<"native", <<app>>>>
        new == <<"CanvasBackend", <<app, args[1], kwargs[1]>>>>
    IN  IF ~NeedsCreate(backend)
        THEN [calls |-> <<>>, exc |-> "ok", made |-> FALSE]
        ELSE CASE out = "use_raises" ->
                    [calls |-> <<use>>, exc |-> "AppError", made |-> FALSE]
               [] out = "native_raises" ->
                    [calls |-> <<use, nat>>, exc |-> "AppError", made |-> FALSE]
               [] args = Nothing \/ kwargs = Nothing ->
                    [calls |-> <<use, nat>>, exc |-> "AttributeError",
                     made |-> FALSE]
               [] out = "backend_raises" ->
                    [calls |-> <<use, nat, new>>, exc |-> "BackendError",
                     made |-> FALSE]
               [] OTHER ->
                    [calls |-> <<use, nat, new>>, exc |-> "ok", made |-> TRUE]

\* The fields create_widget leaves behind, given its result r.
Realize(r, cls, g) ==
    IF r.made
    THEN /\ _backend' = instances + 1
         /\ instances' = instances + 1
         /\ impl' = cls
         /\ geom' = g
    ELSE UNCHANGED <<_backend, instances, impl, geom>>

\* What the environment of one create_widget call does: a collaborator
\* raises, or the backend class returns an instance of class cls whose
\* native window sits at g.
Env(C) == {[out |-> o, cls |-> {}, g |-> <<0, 0, 0, 0>>] :
              o \in Outcomes \ {"ok"}}
          \cup {[out |-> "ok", cls |-> c, g |-> g] :
                  c \in BackendClasses, g \in TuplesOf(C, 4)}

\* one environment, for a call that never consults it
NoEnv == [out |-> "ok", cls |-> {}, g |-> <<0, 0, 0, 0>>]

\* The state Canvas(*args, **kw) leaves behind.  self._kwargs is the very
\* dictionary the two pops mutate.
Constructed(args, kw, env) ==
    LET app == Popped(kw, "app", "default_app")
        kw1 == Pop(kw, "app")
        cw  == Popped(kw1, "create_widget", TRUE)
        kw2 == Pop(kw1, "create_widget")
        r   == IF cw THEN create_widget(None, app, Some(args), Some(kw2), env.out)
               ELSE [calls |-> <<>>, exc |-> "ok", made |-> FALSE]
    IN  /\ cw \/ env = NoEnv
        /\ _app = app
        /\ _title = ""
        /\ _backend = IF r.made THEN 1 ELSE None
        /\ instances = IF r.made THEN 1 ELSE 0
        /\ impl = IF r.made THEN env.cls ELSE {}
        /\ geom = IF r.made THEN env.g ELSE <<0, 0, 0, 0>>
        /\ _args = IF r.made THEN Deleted(Some(args)) ELSE Some(args)
        /\ _kwargs = IF r.made THEN Deleted(Some(kw2)) ELSE Some(kw2)
        /\ alive = IF r.exc = "ok" THEN "ok" ELSE "failed"
        /\ last = [op |-> "__init__", arg |-> <<args, kw>>, calls |-> r.calls,
                   exc |-> r.exc, ret |-> <<>>]
        /\ okTitle = ""

\* canvas.create_widget()
CreateWidget(env) ==
    /\ alive = "ok"
    /\ NeedsCreate(_backend) \/ env = NoEnv
    /\ LET r == create_widget(_backend, _app, _args, _kwargs, env.out)
       IN  /\ Realize(r, env.cls, env.g)
           /\ _args' = IF r.made THEN Deleted(_args) ELSE _args
           /\ _kwargs' = IF r.made THEN Deleted(_kwargs) ELSE _kwargs
           /\ last' = [op |-> "create_widget", arg |-> <<>>, calls |-> r.calls,
                       exc |-> r.exc, ret |-> <<>>]
    /\ UNCHANGED <<alive, _app, _title, okTitle, event>>

\* ------------------------------------------------- properties and methods

\* the elements of a sequence
Range(s) == {s[i] : i \in DOMAIN s}

\* a position test that forgets the comparison with the current position
LocationChangesAlways(args, cur) == None \notin Range(SubSeq(args, 1, 2))

\* args[:2] != cur[:2] and not None in args[:2]
LocationChanges(args, cur) ==
    /\ SubSeq(args, 1, 2) # SubSeq(cur, 1, 2)
    /\ None \notin Range(SubSeq(args, 1, 2))

\* a size test that forgets the None test
SizeChangesNoNoneTest(args, cur) ==
    SubSeq(args, 3, Len(args)) # SubSeq(cur, 3, Len(cur))

\* a size test that forgets the comparison with the current size
SizeChangesAlways(args, cur) == None \notin Range(SubSeq(args, 3, Len(args)))

\* args[2:] != cur[2:] and not None in args[2:]
SizeChanges(args, cur) ==
    /\ SubSeq(args, 3, Len(args)) # SubSeq(cur, 3, Len(cur))
    /\ None \notin Range(SubSeq(args, 3, Len(args)))

\* a setter that reconciles any argument of 4 elements or more
BranchAtLeast(n) ==
    IF n = 2 THEN "move" ELSE IF n >= 4 THEN "reconcile" ELSE "invalid"

\* the branch of the geometry setter an argument of length n takes
Branch(n) == IF n = 2 THEN "move" ELSE IF n = 4 THEN "reconcile" ELSE "invalid"

\* Canvas.geometry = args
GeometrySetter(args) ==
    CASE Branch(Len(args)) = "move" ->
            Call(Begin, "_vispy_set_location", args)
      [] Branch(Len(args)) = "reconcile" ->
            LET s1 == Call(Begin, "_vispy_get_geometry", <<>>)
            IN  IF s1.exc # "ok" THEN s1
                ELSE LET cur == s1.ret[1]
                         s2 == IF LocationChanges(args, cur)
                               THEN Call(s1, "_vispy_set_location",
                                         <<args[1], args[2]>>)
                               ELSE s1
                         s3 == IF SizeChanges(args, cur)
                               THEN Call(s2, "_vispy_set_size",
                                         <<args[3], args[4]>>)
                               ELSE s2
                     IN  [s3 EXCEPT !.ret = <<>>]
      [] OTHER -> Raise(Begin, "ValueError")

\* The arguments handed to the geometry setter: every 2- and 4-tuple of
\* coordinates of C and None, and one tuple of each other length (the setter
\* reads only the length of those).
GeometryArgs(C) ==
    TuplesOf(C \cup {None}, 2) \cup TuplesOf(C \cup {None}, 4)
    \cup {[i \in 1..n |-> 0] : n \in (0..MaxArgLen) \ {2, 4}}

\* An operation that leaves every field of the Canvas alone.
Finish(op, arg, st) ==
    /\ alive = "ok"
    /\ last' = Done(op, arg, st)
    /\ geom' = st.geom
    /\ UNCHANGED <<alive, _app, _args, _kwargs, _backend, _title, impl,
                   instances, okTitle, event>>

\* canvas.app
App == Finish("app", <<>>, [Begin EXCEPT !.ret = <<_app>>])

\* canvas.native
Native == Finish("native", <<>>, Call(Begin, "_vispy_get_native_canvas", <<>>))

\* canvas.geometry
GeometryGet == Finish("geometry.get", <<>>, Call(Begin, "_vispy_get_geometry", <<>>))

\* canvas.geometry = args
GeometrySet(args) == Finish("geometry.set", args, GeometrySetter(args))

\* canvas.title
TitleGet == Finish("title.get", <<>>, [Begin EXCEPT !.ret = <<_title>>])

\* the cached title once the setter has run: it is assigned before the call
TitleAfterSet(title, st) == title

\* canvas.title = title
TitleSet(title) ==
    /\ alive = "ok"
    /\ LET st == Call(Begin, "_vispy_set_title", <<title>>)
       IN  /\ _title' = TitleAfterSet(title, st)
           /\ okTitle' = IF st.exc = "ok" THEN title ELSE okTitle
           /\ last' = Done("title.set", title, st)
    /\ UNCHANGED <<alive, _app, _args, _kwargs, _backend, impl, geom,
                   instances, event>>

\* canvas.show(visible)
Show(visible) == Finish("show", visible, Call(Begin, "_vispy_set_visible", <<visible>>))

\* canvas.update()
Update == Finish("update", <<>>, Call(Begin, "_vispy_update", <<>>))

\* canvas.close()
Close == Finish("close", <<>>, Call(Begin, "_vispy_close", <<>>))

\* The two methods of the contract no Canvas operation delegates to, invoked
\* on the backend instance by the code that draws.
DrawingOps == {"_vispy_set_current", "_vispy_swap_buffers"}

BackendMethod(op) ==
    /\ _backend # None
    /\ Finish(op, <<>>, Call(Begin, op, <<>>))

\* --------------------------------------------------------- specification

NoEvent == [cls |-> "none", type |-> "none", arg |-> <<>>, exc |-> "ok", val |-> <<>>]

\* Every operation of Canvas, on every Canvas a caller can construct.  The
\* geometry is independent of the other fields, so here the windows sit at
\* the origin; SpecGeometry runs the geometry operations over Coord.
Init ==
    /\ \E args \in ArgsSet, kw \in KwargsSet, env \in Env(Origin) \cup {NoEnv} :
          Constructed(args, kw, env)
    /\ event = NoEvent

Next ==
    \/ \E env \in Env(Origin) \cup {NoEnv} : CreateWidget(env)
    \/ App
    \/ Native
    \/ GeometryGet
    \/ \E args \in GeometryArgs(Origin) : GeometrySet(args)
    \/ TitleGet
    \/ \E title \in Titles : TitleSet(title)
    \/ \E visible \in BOOLEAN : Show(visible)
    \/ Update
    \/ Close
    \/ \E op \in DrawingOps : BackendMethod(op)

Spec == Init /\ [][Next]_vars

\* The geometry operations, on a Canvas built with or without
\* create_widget=False, over every native geometry and every argument.
InitGeometry ==
    /\ \E cw \in {"absent", "False"}, env \in Env(Coord) \cup {NoEnv} :
          Constructed(<<>>, Kwargs(FALSE, cw, FALSE), env)
    /\ event = NoEvent

NextGeometry ==
    \/ \E env \in Env(Coord) \cup {NoEnv} : CreateWidget(env)
    \/ GeometryGet
    \/ \E args \in GeometryArgs(Coord) : GeometrySet(args)

SpecGeometry == InitGeometry /\ [][NextGeometry]_vars

\* ------------------------------------------------------ event payloads

EventTypes == {"mouse_press", "mouse_release", "mouse_move", "mouse_wheel"}

\* the sequences of at most MaxPosLen coordinates
Positions == UNION {TuplesOf(Coord, n) : n \in 0..MaxPosLen}

\* MouseEvent.__init__: self._pos, or the exception that pos[0], pos[1] raises.
\* pos is Nothing for pos=None and Some(p) for a sequence p.
MousePos(pos) ==
    IF pos = Nothing THEN [exc |-> "ok", val |-> <<0, 0>>]
    ELSE IF Len(pos[1]) < 2 THEN [exc |-> "IndexError", val |-> <<>>]
    ELSE [exc |-> "ok", val |-> <<pos[1][1], pos[1][2]>>]

\* ResizeEvent.__init__: self.size = tuple(size)
ResizeSize(size) == [exc |-> "ok", val |-> [i \in 1..Len(size) |-> size[i]]]

\* MouseEvent(type, pos)
NewMouseEvent(type, pos) ==
    /\ event' = [cls |-> "MouseEvent", type |-> type, arg |-> pos,
                 exc |-> MousePos(pos).exc, val |-> MousePos(pos).val]
    /\ UNCHANGED canvasVars

\* ResizeEvent(type, size)
NewResizeEvent(type, size) ==
    /\ event' = [cls |-> "ResizeEvent", type |-> type, arg |-> size,
                 exc |-> ResizeSize(size).exc, val |-> ResizeSize(size).val]
    /\ UNCHANGED canvasVars

InitEvents ==
    /\ Constructed(<<>>, Kwargs(FALSE, "False", FALSE), NoEnv)
    /\ event = NoEvent

NextEvents ==
    \/ \E type \in EventTypes, pos \in {Nothing} \cup {Some(p) : p \in Positions} :
          NewMouseEvent(type, pos)
    \/ \E size \in Positions : NewResizeEvent("resize", size)

SpecEvents == InitEvents /\ [][NextEvents]_vars

\* ------------------------------------------------------------- properties

Realized == alive = "ok" /\ _backend # None
Unrealized == alive = "ok" /\ _backend = None

\* how many calls of method op a sequence of calls holds
Count(calls, op) == Cardinality({i \in DOMAIN calls : calls[i][1] = op})

\* the calls made on the backend, as opposed to the application
BackendCalls(calls) == {i \in DOMAIN calls : calls[i][1] \in AllOps}

\* C1: realization is one-way and idempotent.  The backend class returns an
\* instance at most once; the backend reference, once set, is never replaced
\* or cleared; create_widget on a realized Canvas calls neither the
\* application nor the backend class.
C1_RealizedOnce ==
    /\ [](instances <= 1 /\ ((_backend # None) <=> (instances = 1)))
    /\ [][/\ _backend # None => _backend' = _backend /\ instances' = instances
          /\ (_backend # None /\ last'.op = "create_widget")
                => last'.calls = <<>> /\ last'.exc = "ok"]_vars

\* create_widget has run on a realized Canvas
C1_Witness ==
    Realized /\ last.op = "create_widget" /\ last.calls = <<>> /\ instances = 1

\* The calls the geometry setter is to issue for argument args when the
\* backend reports geometry cur.
RefCalls(args, cur) ==
    IF Len(args) = 2 THEN << <<"_vispy_set_location", args>> >>
    ELSE << <<"_vispy_get_geometry", <<>> >> >>
         \o (IF /\ (args[1] # cur[1] \/ args[2] # cur[2])
                /\ args[1] # None /\ args[2] # None
             THEN << <<"_vispy_set_location", <<args[1], args[2]>> >> >>
             ELSE <<>>)
         \o (IF /\ (args[3] # cur[3] \/ args[4] # cur[4])
                /\ args[3] # None /\ args[4] # None
             THEN << <<"_vispy_set_size", <<args[3], args[4]>> >> >>
             ELSE <<>>)

\* a sequence of calls up to and including the first one the class of the
\* backend leaves to the base class, where it raises
UntilFailure(ref, over) ==
    LET bad == {i \in DOMAIN ref : ref[i][1] \notin over}
    IN  IF bad = {} THEN ref
        ELSE SubSeq(ref, 1, CHOOSE i \in bad : \A j \in bad : i <= j)

\* C2, as stated: on a realized Canvas whose backend reports its geometry,
\* the calls the geometry setter issues for a 2- or 4-element argument are
\* exactly the reference calls, whatever the backend does with each call.
C2_SetterIssuesReferenceCalls ==
    [][(/\ _backend # None
        /\ last'.op = "geometry.set"
        /\ \/ Len(last'.arg) = 2
           \/ Len(last'.arg) = 4 /\ "_vispy_get_geometry" \in impl)
       => last'.calls = RefCalls(last'.arg, geom)]_vars

\* C2, amended: on a realized Canvas the calls the geometry setter issues for
\* a 2- or 4-element argument are the reference calls up to and including
\* the first call that raises; that exception ends the setter, and without
\* one the setter returns normally.
C2_SetterIssuesReferenceCallsUntilFailure ==
    [][(/\ _backend # None
        /\ last'.op = "geometry.set"
        /\ Len(last'.arg) \in {2, 4})
       => LET ref == RefCalls(last'.arg, geom)
          IN  /\ last'.calls = UntilFailure(ref, impl)
              /\ (last'.exc = "ok") <=> (last'.calls = ref /\ \A i \in DOMAIN ref : ref[i][1] \in impl)
              /\ last'.exc \in {"ok", "NotImplementedError"}]_vars

\* a 4-element set has queried, moved and resized
C2_Witness ==
    /\ Realized /\ last.op = "geometry.set" /\ Len(last.arg) = 4
    /\ last.exc = "ok"
    /\ last.calls = << <<"_vispy_get_geometry", <<>> >>,
                       <<"_vispy_set_location", <<last.arg[1], last.arg[2]>> >>,
                       <<"_vispy_set_size", <<last.arg[3], last.arg[4]>> >> >>

\* C3, as stated: a 4-tuple with the current position and another size
\* issues one resize and no move; one with the current size and another
\* position issues one move and no resize.
C3_OnlyTheChangedHalf ==
    [][(/\ _backend # None /\ "_vispy_get_geometry" \in impl
        /\ last'.op = "geometry.set" /\ Len(last'.arg) = 4)
       => LET a == last'.arg
              samePos == a[1] = geom[1] /\ a[2] = geom[2]
              sameSize == a[3] = geom[3] /\ a[4] = geom[4]
          IN  /\ (samePos /\ ~sameSize)
                   => /\ Count(last'.calls, "_vispy_set_size") = 1
                      /\ Count(last'.calls, "_vispy_set_location") = 0
              /\ (sameSize /\ ~samePos)
                   => /\ Count(last'.calls, "_vispy_set_location") = 1
                      /\ Count(last'.calls, "_vispy_set_size") = 0]_vars

\* C3, amended: the same, for a changed size neither dimension of which is
\* None, and for a changed position neither coordinate of which is None; the
\* one call carries the requested values.  A changed half that holds a None
\* issues no call.
C3_OnlyTheChangedHalfUnlessNone ==
    [][(/\ _backend # None /\ "_vispy_get_geometry" \in impl
        /\ last'.op = "geometry.set" /\ Len(last'.arg) = 4)
       => LET a == last'.arg
              samePos == a[1] = geom[1] /\ a[2] = geom[2]
              sameSize == a[3] = geom[3] /\ a[4] = geom[4]
              noneInPos == a[1] = None \/ a[2] = None
              noneInSize == a[3] = None \/ a[4] = None
              query == <<"_vispy_get_geometry", <<>> >>
          IN  /\ (samePos /\ ~sameSize /\ ~noneInSize)
                   => last'.calls = <<query, <<"_vispy_set_size", <<a[3], a[4]>> >> >>
              /\ (sameSize /\ ~samePos /\ ~noneInPos)
                   => last'.calls = <<query, <<"_vispy_set_location", <<a[1], a[2]>> >> >>
              /\ (samePos /\ noneInSize) \/ (sameSize /\ noneInPos)
                   => last'.calls = <<query>>]_vars

\* a 4-element set has resized without moving
C3_Witness ==
    /\ Realized /\ last.op = "geometry.set" /\ Len(last.arg) = 4
    /\ last.exc = "ok"
    /\ last.calls = << <<"_vispy_get_geometry", <<>> >>,
                       <<"_vispy_set_size", <<last.arg[3], last.arg[4]>> >> >>
    /\ geom = last.arg

\* C4, as stated: setting the geometry to the 4-tuple the backend reports
\* issues no backend call at all.
C4_CurrentGeometryNoCalls ==
    [][(/\ _backend # None /\ "_vispy_get_geometry" \in impl
        /\ last'.op = "geometry.set" /\ last'.arg = geom)
       => last'.calls = <<>>]_vars

\* C4, amended: setting the geometry to the 4-tuple the backend reports
\* issues the one geometry query and nothing else, no move and no resize,
\* returns normally and leaves the backend's geometry as it was, so that
\* the same holds of the next set of that value.
C4_CurrentGeometryOnlyQueried ==
    [][(/\ _backend # None /\ "_vispy_get_geometry" \in impl
        /\ last'.op = "geometry.set" /\ last'.arg = geom)
       => /\ last'.calls = << <<"_vispy_get_geometry", <<>> >> >>
          /\ last'.exc = "ok"
          /\ geom' = geom]_vars

\* the geometry was set to the value the backend reports
C4_Witness ==
    /\ Realized /\ last.op = "geometry.set" /\ last.arg = geom
    /\ last.calls = << <<"_vispy_get_geometry", <<>> >> >>

\* C5: the cached title is the value of the last title set that returned
\* normally ("" when none did), and that is what title get returns.
C5_TitleIsLastSuccessfulSet ==
    alive = "ok" =>
        /\ _title = okTitle
        /\ last.op = "title.get" => last.ret = <<okTitle>>

\* C6: an argument of a length other than 2 and 4 makes the geometry setter
\* raise ValueError without a single backend call, on a realized Canvas and
\* on an unrealized one.
C6_WrongLengthRejected ==
    (last.op = "geometry.set" /\ Len(last.arg) \notin {2, 4})
        => last.exc = "ValueError" /\ last.calls = <<>>

\* a 3-element argument was handed to the setter of a realized Canvas
C6_Witness ==
    Realized /\ last.op = "geometry.set" /\ Len(last.arg) = 3

\* the operations of Canvas that delegate to the backend
Delegating == {"native", "geometry.get", "geometry.set", "title.set", "show",
               "update", "close"}

\* C7: a delegating operation on an unrealized Canvas raises, calls nothing
\* and leaves the Canvas unrealized; only create_widget realizes a Canvas.
C7_UnrealizedFails ==
    [][/\ (_backend = None /\ last'.op \in Delegating)
            => /\ last'.exc # "ok"
               /\ last'.calls = <<>>
               /\ _backend' = None /\ instances' = instances
       /\ (_backend = None /\ _backend' # None) => last'.op = "create_widget"]_vars

\* a 4-element geometry was set on an unrealized Canvas
C7_Witness ==
    /\ Unrealized /\ last.op = "geometry.set" /\ Len(last.arg) = 4
    /\ last.exc = "AttributeError"

C9_WrongArityRefused ==
    /\ (event.cls = "MouseEvent" /\ event.arg = Nothing)
            => event.exc = "ok" /\ event.val = <<0, 0>>
    /\ (event.cls = "MouseEvent" /\ event.arg # Nothing)
            => IF Len(event.arg[1]) = 2
               THEN event.exc = "ok" /\ event.val = event.arg[1]
               ELSE event.exc # "ok"
    /\ event.cls = "ResizeEvent"
            => IF Len(event.arg) = 2
               THEN event.exc = "ok" /\ event.val = event.arg
               ELSE event.exc # "ok"

\* the keys of the keyword arguments a Canvas holds
HeldKeys == IF _kwargs = Nothing THEN {} ELSE DOMAIN _kwargs[1]

\* C10: the Canvas holds its construction arguments exactly while it has no
\* backend, and the held keywords lack 'app' and 'create_widget'; the
\* arguments go only in the step that sets the backend and never come back;
\* a create_widget that raises leaves them and the absent backend as they
\* were; the backend class is called with the held arguments.
C10_ArgumentsHeldUntilRealized ==
    /\ [](/\ (_args # Nothing) <=> (_backend = None)
          /\ (_kwargs # Nothing) <=> (_backend = None)
          /\ HeldKeys \cap {"app", "create_widget"} = {}
          /\ (last.op \in {"__init__", "create_widget"} /\ last.exc # "ok")
                => _backend = None)
    /\ [][/\ (_args # _args' \/ _kwargs # _kwargs')
                => /\ _backend = None /\ _backend' # None
                   /\ _args' = Nothing /\ _kwargs' = Nothing
                   /\ last'.op = "create_widget" /\ last'.exc = "ok"
                   /\ last'.calls[3] = <<"CanvasBackend", <<_app, _args[1], _kwargs[1]>> >>
          /\ (last'.op = "create_widget" /\ last'.exc # "ok")
                => _args' = _args /\ _kwargs' = _kwargs /\ _backend' = _backend]_vars

\* a create_widget call has failed on a Canvas built with app=..., which
\* still holds its arguments
C10_Witness ==
    /\ Unrealized /\ last.op = "create_widget" /\ last.exc = "BackendError"
    /\ _app = "app1" /\ _args # Nothing /\ _kwargs # Nothing

====
